---- MODULE Spec2Model ----
(***************************************************************************)
(* A model of app.py: the randomized quick sort used for manual input, the *)
(* spreadsheet sorter of /upload_and_sort, the one-time /download of the   *)
(* sorted artifact and the before_request clean-up of temporary files.     *)
(*                                                                         *)
(* Python strings are sequences of character codes, so that str.lower(),   *)
(* str.strip(), str.split(',') and the <= of two strings are computed, not *)
(* assumed.  Python lists are functions on 0..n-1, so that the index       *)
(* arithmetic of the code (i = low - 1, range(low, high)) is kept.         *)
(***************************************************************************)
EXTENDS Integers, Sequences, FiniteSets, TLC

VARIABLES
    \* --- randomized_quick_sort -------------------------------------------
    input,      \* the list handed to randomized_quick_sort, as it was
    data,       \* the list being sorted in place
    stack,      \* the call stack of randomized_quick_sort frames
    part,       \* the running randomized_partition/partition call, or NoPart
    last,       \* what the last finished randomized_partition call did
    \* --- upload_and_sort / download / before_request ---------------------
    request,    \* the /upload_and_sort request in flight or last handled
    response,   \* its response, NoResponse while it is in flight
    files,      \* the system temporary directory: name -> modification time
    now,        \* time.time()
    next_tmp,   \* how many NamedTemporaryFile names were handed out
    dl,         \* the /download requests being handled, one per thread
    served,     \* per path, how many /download responses carried the file
    cleaned_at  \* when cleanup_old_temp_files last ran (-1: never)

sortvars == <<input, data, stack, part, last>>
webvars  == <<request, response, files, now, next_tmp, dl, served, cleaned_at>>
vars     == <<input, data, stack, part, last,
              request, response, files, now, next_tmp, dl, served, cleaned_at>>

(***************************************************************************)
(* Bounds of the model.                                                    *)
(***************************************************************************)
MaxLen == 4          \* longest list handed to randomized_quick_sort
MaxRows == 3         \* most rows of an uploaded sheet
MaxTicks == 3        \* how many hours the clock may advance
MaxUploads == 2      \* how many uploads the file model follows

(***************************************************************************)
(* Python strings.                                                         *)
(***************************************************************************)
\* str.lower() of one character: 'A'..'Z' (65..90) become 'a'..'z'.
LowerChar(c) == IF c >= 65 /\ c <= 90 THEN c + 32 ELSE c

\* str.lower()
Lower(s) == [k \in 1..Len(s) |-> LowerChar(s[k])]

\* s <= t for two Python strings: lexicographic on the character codes, a
\* proper prefix being smaller.
RECURSIVE StrLeq(_, _)
StrLeq(s, t) ==
    IF s = <<>> THEN TRUE
    ELSE IF t = <<>> THEN FALSE
    ELSE IF Head(s) < Head(t) THEN TRUE
    ELSE IF Head(s) > Head(t) THEN FALSE
    ELSE StrLeq(Tail(s), Tail(t))

StrLt(s, t) == StrLeq(s, t) /\ s # t

\* The names sorted by the manual route: "A", "B", "a", "ab".
Names == { <<65>>, <<66>>, <<97>>, <<97, 98>> }

\* The Python lists of at most MaxLen names.
Lists == UNION { [0..(n - 1) -> Names] : n \in 0..MaxLen }

PyLen(l) == Cardinality(DOMAIN l)

Swap(l, a, b) == [l EXCEPT ![a] = l[b], ![b] = l[a]]

(***************************************************************************)
(* randomized_quick_sort, randomized_partition, partition.                 *)
(***************************************************************************)
NoPart == [pc |-> "none"]
NoLast == [valid |-> FALSE]

Frame(lo, hi) == [low |-> lo, high |-> hi, pc |-> "start", p |-> -1]

Top == stack[Len(stack)]

SetTop(f) == [stack EXCEPT ![Len(stack)] = f]

Pop == SubSeq(stack, 1, Len(stack) - 1)

SortInit ==
    /\ input \in Lists
    /\ data = input
    /\ stack = << Frame(0, PyLen(input) - 1) >>
    /\ part = NoPart
    /\ last = NoLast

\* line 18, low >= high: the call returns at once.
QuickSortBase ==
    /\ stack # <<>> /\ part = NoPart
    /\ Top.pc = "start"
    /\ ~(Top.low < Top.high)
    /\ stack' = Pop
    /\ UNCHANGED <<input, data, part, last>>
    /\ UNCHANGED webvars

\* The pivot index drawn by random.randint(low, high): both ends included.
PivotChoices(lo, hi) == lo..hi

\* lines 18-19 and 25-27: low < high, randomized_partition draws r, swaps
\* data[r] and data[high] and calls partition.
RandomizedPartition ==
    /\ stack # <<>> /\ part = NoPart
    /\ Top.pc = "start"
    /\ Top.low < Top.high
    /\ \E r \in PivotChoices(Top.low, Top.high) :
          /\ data' = Swap(data, r, Top.high)
          /\ part' = [pc |-> "enter", low |-> Top.low, high |-> Top.high,
                      r |-> r, chosen |-> data[r], before |-> data,
                      pivot |-> <<>>, pivot_key |-> <<>>, i |-> -1, j |-> -1,
                      touched |-> {r, Top.high}]
    /\ UNCHANGED <<input, stack, last>>
    /\ UNCHANGED webvars

\* lines 33-36: pivot = data[high], its key, i = low - 1; the loop starts
\* at j = low.
PartitionEnter ==
    /\ part.pc = "enter"
    /\ part' = [part EXCEPT !.pc = "loop",
                            !.pivot = data[part.high],
                            !.pivot_key = Lower(data[part.high]),
                            !.i = part.low - 1,
                            !.j = part.low,
                            !.touched = @ \cup {part.high}]
    /\ UNCHANGED <<input, data, stack, last>>
    /\ UNCHANGED webvars

\* A strict comparison in place of line 42's.
KeyLeqStrict(current_key, pivot_key) == StrLt(current_key, pivot_key)

\* The comparison of line 42 turned round.
KeyLeqReversed(current_key, pivot_key) == StrLeq(pivot_key, current_key)

\* line 42: the comparison of the current key with the pivot's key.
KeyLeq(current_key, pivot_key) == StrLeq(current_key, pivot_key)

\* lines 38-44: one iteration of for j in range(low, high).
PartitionLoop ==
    /\ part.pc = "loop"
    /\ part.j < part.high
    /\ LET current_key == Lower(data[part.j]) IN
       IF KeyLeq(current_key, part.pivot_key)
       THEN /\ data' = Swap(data, part.i + 1, part.j)
            /\ part' = [part EXCEPT !.i = @ + 1, !.j = @ + 1,
                                    !.touched = @ \cup {part.j, part.i + 1}]
       ELSE /\ data' = data
            /\ part' = [part EXCEPT !.j = @ + 1,
                                    !.touched = @ \cup {part.j}]
    /\ UNCHANGED <<input, stack, last>>
    /\ UNCHANGED webvars

\* lines 46-47 and 19: the loop is over, the pivot goes to i + 1, which is
\* returned through randomized_partition to p.
PartitionReturn ==
    /\ part.pc = "loop"
    /\ part.j >= part.high
    /\ data' = Swap(data, part.i + 1, part.high)
    /\ last' = [valid |-> TRUE, low |-> part.low, high |-> part.high,
                p |-> part.i + 1, chosen |-> part.chosen,
                before |-> part.before,
                after |-> Swap(data, part.i + 1, part.high),
                touched |-> part.touched \cup {part.i + 1, part.high}]
    /\ stack' = SetTop([Top EXCEPT !.pc = "left", !.p = part.i + 1])
    /\ part' = NoPart
    /\ UNCHANGED input
    /\ UNCHANGED webvars

\* A left sub-range that keeps the pivot, in place of line 20's.
LeftHighKeepsPivot(p) == p

\* The last index of the left sub-range.
LeftHigh(p) == p - 1

\* line 20: randomized_quick_sort(data, low, p - 1)
QuickSortLeft ==
    /\ stack # <<>> /\ part = NoPart
    /\ Top.pc = "left"
    /\ stack' = Append(SetTop([Top EXCEPT !.pc = "right"]),
                       Frame(Top.low, LeftHigh(Top.p)))
    /\ UNCHANGED <<input, data, part, last>>
    /\ UNCHANGED webvars

\* line 21: randomized_quick_sort(data, p + 1, high)
QuickSortRight ==
    /\ stack # <<>> /\ part = NoPart
    /\ Top.pc = "right"
    /\ stack' = Append(SetTop([Top EXCEPT !.pc = "return"]),
                       Frame(Top.p + 1, Top.high))
    /\ UNCHANGED <<input, data, part, last>>
    /\ UNCHANGED webvars

\* after line 21: the call returns.
QuickSortReturn ==
    /\ stack # <<>> /\ part = NoPart
    /\ Top.pc = "return"
    /\ stack' = Pop
    /\ UNCHANGED <<input, data, part, last>>
    /\ UNCHANGED webvars

SortNext ==
    \/ QuickSortBase
    \/ RandomizedPartition
    \/ PartitionEnter
    \/ PartitionLoop
    \/ PartitionReturn
    \/ QuickSortLeft
    \/ QuickSortRight
    \/ QuickSortReturn

(***************************************************************************)
(* More of Python's str: strip(), split(','), str() of a number.           *)
(***************************************************************************)
Space == 32
Comma == 44

\* str.strip(): the blanks at both ends go.
RECURSIVE LStrip(_)
LStrip(s) == IF s # <<>> /\ Head(s) = Space THEN LStrip(Tail(s)) ELSE s

RECURSIVE RStrip(_)
RStrip(s) ==
    IF s # <<>> /\ s[Len(s)] = Space THEN RStrip(SubSeq(s, 1, Len(s) - 1))
    ELSE s

Strip(s) == RStrip(LStrip(s))

\* str.split(','): the pieces between the commas, empty pieces included;
\* always at least one piece.
RECURSIVE SplitFrom(_, _)
SplitFrom(s, piece) ==
    IF s = <<>> THEN << piece >>
    ELSE IF Head(s) = Comma THEN << piece >> \o SplitFrom(Tail(s), <<>>)
    ELSE SplitFrom(Tail(s), Append(piece, Head(s)))

Split(s) == SplitFrom(s, <<>>)

\* str(n) of a non-negative int: its decimal digits.
RECURSIVE Digits(_)
Digits(n) ==
    IF n < 10 THEN << 48 + n >> ELSE Append(Digits(n \div 10), 48 + (n % 10))

\* [col.strip() for col in pieces if col.strip()]
RECURSIVE StripAndDropEmpty(_)
StripAndDropEmpty(pieces) ==
    IF pieces = <<>> THEN <<>>
    ELSE IF Strip(Head(pieces)) # <<>>
         THEN << Strip(Head(pieces)) >> \o StripAndDropEmpty(Tail(pieces))
         ELSE StripAndDropEmpty(Tail(pieces))

\* [x for x in seq if x not in set]
RECURSIVE NotIn(_, _)
NotIn(seq, set) ==
    IF seq = <<>> THEN <<>>
    ELSE IF Head(seq) \notin set
         THEN << Head(seq) >> \o NotIn(Tail(seq), set)
         ELSE NotIn(Tail(seq), set)

Range(seq) == {seq[k] : k \in 1..Len(seq)}

\* str.startswith and str.endswith
StartsWith(s, prefix) ==
    Len(s) >= Len(prefix) /\ SubSeq(s, 1, Len(prefix)) = prefix

EndsWith(s, suffix) ==
    Len(s) >= Len(suffix)
        /\ SubSeq(s, Len(s) - Len(suffix) + 1, Len(s)) = suffix

\* "tmp", ".xlsx", ".xls", ".csv"
Tmp == << 116, 109, 112 >>
DotXlsx == << 46, 120, 108, 115, 120 >>
DotXls == << 46, 120, 108, 115 >>
DotCsv == << 46, 99, 115, 118 >>

(***************************************************************************)
(* The sheet read by pd.read_excel: a DataFrame, its columns in order and  *)
(* its rows in order, each row holding one cell per column.  A cell is a   *)
(* text, a whole number or empty (NaN).                                     *)
(***************************************************************************)
StrCell(s) == [kind |-> "str", s |-> s, n |-> 0]
IntCell(n) == [kind |-> "int", s |-> <<>>, n |-> n]
NaN == [kind |-> "nan", s |-> <<>>, n |-> 0]

\* The sheets have the columns "a" and "b".
ColA == << 97 >>
ColB == << 98 >>
SheetColumns == << ColA, ColB >>

\* Cells of column "a": "a", "B", 2, 10, empty.  Of column "b": "B", "a".
CellsA == { StrCell(<<97>>), StrCell(<<66>>), IntCell(2), IntCell(10), NaN }
CellsB == { StrCell(<<66>>), StrCell(<<97>>) }

SheetRows == { << x, y >> : x \in CellsA, y \in CellsB }

Sheets ==
    { [columns |-> SheetColumns, rows |-> r] :
          r \in UNION { [1..n -> SheetRows] : n \in 0..MaxRows } }

ColumnIndex(df, col) == CHOOSE c \in 1..Len(df.columns) : df.columns[c] = col

ColumnCells(df, col) ==
    [k \in 1..Len(df.rows) |-> df.rows[k][ColumnIndex(df, col)]]

\* df[col].dtype as read_excel infers it: object when the column holds a
\* text (or no row at all), float64 when it holds numbers and empty cells,
\* int64 when it holds whole numbers only.
Dtype(df, col) ==
    LET cells == ColumnCells(df, col) IN
    IF Len(cells) = 0 THEN "object"
    ELSE IF \E k \in 1..Len(cells) : cells[k].kind = "str" THEN "object"
    ELSE IF \E k \in 1..Len(cells) : cells[k].kind = "nan" THEN "float64"
    ELSE "int64"

\* One cell of Series.astype(str): a text as it is, NaN as "nan", a number
\* as str() prints it, which in a float64 column ends in ".0".
AsTypeStr(cell, dtype) ==
    IF cell.kind = "str" THEN cell.s
    ELSE IF cell.kind = "nan" THEN << 110, 97, 110 >>
    ELSE IF dtype = "float64" THEN Digits(cell.n) \o << 46, 48 >>
    ELSE Digits(cell.n)

\* The one-to-one maps of 1..n onto itself: the row orders a sort can give.
Orders(n) == { o \in [1..n -> 1..n] : \A x, y \in 1..n : x # y => o[x] # o[y] }

\* A reordering that hands back the lower-cased texts of the sort keys in
\* place of the cells.
ReorderFolded(df, order) ==
    [columns |-> df.columns,
     rows |-> [k \in 1..Len(df.rows) |->
                  [c \in 1..Len(df.columns) |->
                      LET cell == df.rows[order[k]][c] IN
                      IF cell.kind = "str"
                      THEN [cell EXCEPT !.s = Lower(cell.s)]
                      ELSE cell]]]

\* df.loc[order].reset_index(drop=True), and ignore_index=True: the rows in
\* the given order, renumbered.
Reorder(df, order) ==
    [columns |-> df.columns,
     rows |-> [k \in 1..Len(df.rows) |-> df.rows[order[k]]]]

(***************************************************************************)
(* The multi-column path, lines 112-129.                                   *)
(***************************************************************************)
\* A test that takes every column for a text column, in place of line 119's.
IsStringColumnAlways(df, col) == TRUE

\* The dtype test of line 119.
IsStringColumn(df, col) == Dtype(df, col) = "object"

\* temp_df[col] after the loop of lines 118-120: the lower-cased text of the
\* cells of an object column, the cells themselves of any other column.
TempColumn(df, col) ==
    LET cells == ColumnCells(df, col) IN
    IF IsStringColumn(df, col)
    THEN [k \in 1..Len(cells) |->
              StrCell(Lower(AsTypeStr(cells[k], "object")))]
    ELSE cells

\* The order pandas sorts one column of temp_df by: texts as Python
\* compares them, numbers by value, NaN after everything (na_position is
\* 'last').
TempLeq(x, y) ==
    IF y.kind = "nan" THEN TRUE
    ELSE IF x.kind = "nan" THEN FALSE
    ELSE IF x.kind = "str" /\ y.kind = "str" THEN StrLeq(x.s, y.s)
    ELSE x.n <= y.n

\* Tuples of temp_df cells compared column by column, the first column
\* that differs deciding.
RECURSIVE TupleLeq(_, _)
TupleLeq(s, t) ==
    IF s = <<>> THEN TRUE
    ELSE IF Head(s) = Head(t) THEN TupleLeq(Tail(s), Tail(t))
    ELSE TempLeq(Head(s), Head(t))

\* The orders that put the keys, tuples of cells, in non-decreasing order.
SortedOrders(keys) ==
    { o \in Orders(Len(keys)) :
          \A k \in 1..(Len(keys) - 1) : TupleLeq(keys[o[k]], keys[o[k + 1]]) }

\* Among them, the one that keeps equal keys in their first order.
StableOrders(keys) ==
    { o \in SortedOrders(keys) :
          \A k \in 1..(Len(keys) - 1) :
              TupleLeq(keys[o[k + 1]], keys[o[k]]) => o[k] < o[k + 1] }

\* temp_df = df[columns_to_sort] after the loop, row by row.
TempRows(df, cols) ==
    [k \in 1..Len(df.rows) |->
        [c \in 1..Len(cols) |-> TempColumn(df, cols[c])[k]]]

\* temp_df.sort_values(by=columns_to_sort).index: pandas sorts several
\* columns with its lexsort indexer, which is stable.
SortedIndices(df, cols) == StableOrders(TempRows(df, cols))

(***************************************************************************)
(* The single-column path, lines 104-111.                                  *)
(***************************************************************************)
\* key=lambda x: x.astype(str).str.lower() on the cells of the column: a
\* column of texts, whatever the column held.
SingleKey(df, col) ==
    LET cells == ColumnCells(df, col)
        dtype == Dtype(df, col)
    IN  [k \in 1..Len(cells) |->
            << StrCell(Lower(AsTypeStr(cells[k], dtype))) >>]

\* sort_values(by=one column, key=...) is called without kind=, so numpy's
\* quicksort argsort orders the keys: the result is sorted, and the order
\* of rows with equal keys is whatever that sort leaves.
SingleColumnOrders(df, col) == SortedOrders(SingleKey(df, col))

HasDuplicates(seq) == \E x, y \in 1..Len(seq) : x # y /\ seq[x] = seq[y]

(***************************************************************************)
(* /upload_and_sort, lines 76-154.                                         *)
(***************************************************************************)
NoRequest == [kind |-> "none"]
NoResponse == [kind |-> "none"]
NoDf == [columns |-> <<>>, rows |-> <<>>]

Reply(status, error) ==
    [kind |-> "json", status |-> status, error |-> error,
     missing |-> <<>>, available |-> <<>>, columns_to_sort |-> <<>>,
     df |-> NoDf, temp_file_path |-> <<>>]

\* lines 94: the names between the commas, stripped, the empty ones dropped.
ColumnsToSort(sort_column_names) ==
    StripAndDropEmpty(Split(sort_column_names))

\* A check that reports the first missing column only, in place of line 97's.
MissingColumnsFirstOnly(df, columns_to_sort) ==
    LET all == NotIn(columns_to_sort, Range(df.columns))
    IN  IF all = <<>> THEN <<>> ELSE << Head(all) >>

\* line 97
MissingColumns(df, columns_to_sort) ==
    NotIn(columns_to_sort, Range(df.columns))

Sorted(df) == [raised |-> FALSE, df |-> df]
Raised == [raised |-> TRUE, df |-> NoDf]

\* lines 104-129: the sorted DataFrames the two paths can produce; none
\* when pandas raises.
SortedFrames(df, columns_to_sort) ==
    IF Len(columns_to_sort) = 1
    THEN { Sorted(Reorder(df, o)) :
               o \in SingleColumnOrders(df, columns_to_sort[1]) }
    ELSE IF columns_to_sort = <<>>
    \* sort_values(by=[]) returns the frame as it is in the pandas releases
    \* that accept it, and raises in those that do not.
    THEN { Sorted(df), Raised }
    ELSE IF HasDuplicates(columns_to_sort)
    \* temp_df then has two columns of one name: temp_df[col] is a frame
    \* with no .str, and sort_values finds the label ambiguous.
    THEN { Raised }
    ELSE { Sorted(Reorder(df, o)) : o \in SortedIndices(df, columns_to_sort) }

\* The responses of upload_and_sort to a request, temp_file_name being the
\* name NamedTemporaryFile would give.
upload_and_sort(req, temp_file_name) ==
    IF ~req.has_file
    THEN { Reply(400, "No file part") }
    ELSE LET sort_column_names == Strip(req.sort_column_name) IN
    IF req.filename = <<>> \/ sort_column_names = <<>>
    THEN { Reply(400, "Please select a file and specify at least one column name.") }
    ELSE IF ~(EndsWith(req.filename, DotXlsx) \/ EndsWith(req.filename, DotXls))
    THEN { Reply(400, "Invalid file format. Must be .xlsx or .xls.") }
    ELSE IF ~req.readable
    THEN { Reply(500, "An error occurred") }
    ELSE LET df == req.df
             columns_to_sort == ColumnsToSort(sort_column_names)
             missing_columns == MissingColumns(df, columns_to_sort)
         IN
    IF missing_columns # <<>>
    THEN { [Reply(400, "Columns not found in the sheet") EXCEPT
                !.missing = missing_columns,
                !.available = df.columns,
                !.columns_to_sort = columns_to_sort] }
    ELSE { IF sorted.raised
           THEN [Reply(500, "An error occurred") EXCEPT
                    !.columns_to_sort = columns_to_sort]
           ELSE [Reply(200, "") EXCEPT
                    !.columns_to_sort = columns_to_sort,
                    !.df = sorted.df,
                    !.temp_file_path = temp_file_name]
           : sorted \in SortedFrames(df, columns_to_sort) }

(***************************************************************************)
(* The temporary directory, the clock and cleanup_old_temp_files.          *)
(***************************************************************************)
\* The age in seconds beyond which line 193 means to delete a file.
MaxAge == 3600

\* The name NamedTemporaryFile(suffix='.xlsx') gives to the k-th file:
\* "tmp", a part of its own, ".xlsx".
TempFileName(k) == Tmp \o << 48 + k >> \o DotXlsx

\* A sheet somebody else keeps in the temporary directory: "s.xlsx".
OtherFile == << 115 >> \o DotXlsx

InitFiles == [f \in {OtherFile} |-> 0]

Create(fs, name, mtime) ==
    [f \in DOMAIN fs \cup {name} |-> IF f = name THEN mtime ELSE fs[f]]

Unlink(fs, name) == [f \in DOMAIN fs \ {name} |-> fs[f]]

\* Lines 1-7 import random, io, pandas, tempfile, os, flask and werkzeug:
\* the name time that line 193 reads is bound nowhere in the module.
TimeIsImported == FALSE

\* cleanup_old_temp_files, lines 185-196, on the directory fs at time t.
\* For every tmp*.xlsx file the test of line 193 is evaluated inside try;
\* with time unbound it raises NameError, which the bare except swallows,
\* and os.unlink is not reached.
cleanup_old_temp_files(fs, t) ==
    LET matching == { f \in DOMAIN fs :
                          StartsWith(f, Tmp) /\ EndsWith(f, DotXlsx) }
        deleted == IF TimeIsImported
                   THEN { f \in matching : fs[f] < t - MaxAge }
                   ELSE {}
    IN  [f \in DOMAIN fs \ deleted |-> fs[f]]

(***************************************************************************)
(* The request handlers.                                                   *)
(***************************************************************************)
\* The threads of the server started by app.run (line 199), which handles
\* requests concurrently.
Threads == {"t1", "t2"}

IdleThread == [pc |-> "idle", path |-> <<>>, status |-> 0]

\* The paths a /download request may name.
Paths == { TempFileName(k) : k \in 0..(MaxUploads - 1) } \cup {OtherFile}

WebInit ==
    /\ response = NoResponse
    /\ files = InitFiles
    /\ now = 0
    /\ next_tmp = 0
    /\ dl = [t \in Threads |-> IdleThread]
    /\ served = [f \in Paths |-> 0]
    /\ cleaned_at = -1

\* before_request, then upload_and_sort (lines 76-154) on the request in
\* flight; on success the sorted frame is written to a new temporary file.
UploadAndSort ==
    /\ request # NoRequest
    /\ response = NoResponse
    /\ LET cleaned == cleanup_old_temp_files(files, now)
           name == TempFileName(next_tmp)
       IN  \E resp \in upload_and_sort(request, name) :
              /\ response' = resp
              /\ IF resp.status = 200
                 THEN /\ files' = Create(cleaned, name, now)
                      /\ next_tmp' = next_tmp + 1
                 ELSE /\ files' = cleaned
                      /\ next_tmp' = next_tmp
    /\ cleaned_at' = now
    /\ UNCHANGED <<request, now, dl, served>>
    /\ UNCHANGED sortvars

\* before_request, then lines 159-162 and 180-181 of download: the path is
\* read and os.path.exists is asked; a path that is not there gets 404.
DownloadCheck(t) ==
    /\ dl[t].pc = "idle"
    /\ \E path \in Paths :
          LET cleaned == cleanup_old_temp_files(files, now) IN
          /\ files' = cleaned
          /\ IF path \in DOMAIN cleaned
             THEN dl' = [dl EXCEPT ![t] = [pc |-> "send", path |-> path,
                                           status |-> 0]]
             ELSE dl' = [dl EXCEPT ![t] = [pc |-> "idle", path |-> path,
                                           status |-> 404]]
    /\ cleaned_at' = now
    /\ UNCHANGED <<request, response, now, next_tmp, served>>
    /\ UNCHANGED sortvars

\* lines 164-179: send_file opens the file and the response goes out with
\* it; a file that is gone by now makes send_file raise.
DownloadSend(t) ==
    /\ dl[t].pc = "send"
    /\ IF dl[t].path \in DOMAIN files
       THEN /\ dl' = [dl EXCEPT ![t].pc = "open", ![t].status = 200]
            /\ served' = [served EXCEPT ![dl[t].path] = @ + 1]
       ELSE /\ dl' = [dl EXCEPT ![t].pc = "idle", ![t].status = 500]
            /\ served' = served
    /\ UNCHANGED <<request, response, files, now, next_tmp, cleaned_at>>
    /\ UNCHANGED sortvars

\* lines 172-177: the response is closed and cleanup_temp_file unlinks the
\* file; an unlink that fails is printed and ignored.
DownloadClose(t) ==
    /\ dl[t].pc = "open"
    /\ files' = Unlink(files, dl[t].path)
    /\ dl' = [dl EXCEPT ![t].pc = "idle"]
    /\ UNCHANGED <<request, response, now, next_tmp, served, cleaned_at>>
    /\ UNCHANGED sortvars

\* An hour passes.
Tick ==
    /\ now < MaxTicks * MaxAge
    /\ now' = now + MaxAge
    /\ UNCHANGED <<request, response, files, next_tmp, dl, served, cleaned_at>>
    /\ UNCHANGED sortvars

(***************************************************************************)
(* The requests.                                                           *)
(***************************************************************************)
Upload(filename, readable, df, sort_column_name) ==
    [kind |-> "upload", has_file |-> TRUE, filename |-> filename,
     readable |-> readable, df |-> df, sort_column_name |-> sort_column_name]

\* "d.xlsx", "d.xls", "d.csv"
GoodName == << 100 >> \o DotXlsx
XlsName == << 100 >> \o DotXls
CsvName == << 100 >> \o DotCsv

\* The strings sent as sort_column_name: "a", "b", "B", "a,b", "b,a",
\* " a , b ", "a,", "a,a", "z", "a,z", "z,a,y", ",", " , ", "", " ".
KeySpecs ==
    { << 97 >>, << 98 >>, << 66 >>, << 97, 44, 98 >>, << 98, 44, 97 >>,
      << 32, 97, 32, 44, 32, 98, 32 >>, << 97, 44 >>, << 97, 44, 97 >>,
      << 122 >>, << 97, 44, 122 >>, << 122, 44, 97, 44, 121 >>,
      << 44 >>, << 32, 44, 32 >>, << >>, << 32 >> }

OneRowSheet ==
    [columns |-> SheetColumns,
     rows |-> << << StrCell(<<66>>), StrCell(<<97>>) >> >>]

\* Every sheet with every key string in a well-formed upload, and the
\* uploads that fail before the sheet is looked at.
TableRequests ==
    { Upload(GoodName, TRUE, df, k) : df \in Sheets, k \in KeySpecs }
        \cup { Upload(n, r, OneRowSheet, << 97 >>) :
                   n \in {GoodName, XlsName, CsvName, <<>>}, r \in BOOLEAN }
        \cup { [Upload(GoodName, TRUE, OneRowSheet, << 97 >>)
                   EXCEPT !.has_file = FALSE] }

\* The uploads the file model follows: one that sorts, one that names an
\* unknown column.
FileRequests ==
    { Upload(GoodName, TRUE, OneRowSheet, k) : k \in { << 97 >>, << 122 >> } }

\* A client sends an upload.
Submit ==
    /\ request = NoRequest \/ response # NoResponse
    /\ next_tmp < MaxUploads
    /\ request' \in FileRequests
    /\ response' = NoResponse
    /\ UNCHANGED <<files, now, next_tmp, dl, served, cleaned_at>>
    /\ UNCHANGED sortvars

(***************************************************************************)
(* The specifications.                                                     *)
(***************************************************************************)
SortIdle ==
    /\ input = << >>
    /\ data = << >>
    /\ stack = << >>
    /\ part = NoPart
    /\ last = NoLast

\* One upload of every sheet with every key string.
TableInit == SortIdle /\ WebInit /\ request \in TableRequests

TableNext == UploadAndSort

TableSpec == TableInit /\ [][TableNext]_vars

\* Uploads, downloads on two threads and the clock.
FileInit == SortIdle /\ WebInit /\ request = NoRequest

FileNext ==
    \/ Submit
    \/ UploadAndSort
    \/ \E t \in Threads : DownloadCheck(t)
    \/ \E t \in Threads : DownloadSend(t)
    \/ \E t \in Threads : DownloadClose(t)
    \/ Tick

FileSpec == FileInit /\ [][FileNext]_vars

WebIdle == WebInit /\ request = NoRequest

SortSpecInit == SortInit /\ WebIdle

\* One call of randomized_quick_sort on every list of at most MaxLen names.
SortSpec == SortSpecInit /\ [][SortNext]_vars

\* The interpreter runs the call to its end: it never stops between steps.
SortFairSpec == SortSpecInit /\ [][SortNext]_vars /\ WF_vars(SortNext)

(***************************************************************************)
(* The claims about the sort.                                              *)
(***************************************************************************)
SortDone == stack = <<>>

Count(l, x) == Cardinality({k \in DOMAIN l : l[k] = x})

SameMultiset(l, m) ==
    /\ DOMAIN l = DOMAIN m
    /\ \A x \in Names : Count(l, x) = Count(m, x)

\* C1: when randomized_quick_sort(S, 0, len(S) - 1) has returned, S holds
\* the same multiset of strings as before the call and S[k].lower() <=
\* S[k+1].lower() for every adjacent pair, for every list (the empty and the
\* one-element list included) and every sequence of pivot draws.
C1_SortedPermutation ==
    SortDone =>
        /\ SameMultiset(data, input)
        /\ \A k \in DOMAIN data :
              (k + 1) \in DOMAIN data =>
                  StrLeq(Lower(data[k]), Lower(data[k + 1]))

\* A finished sort of a list of three or more names that had to move names
\* and holds two names equal up to case.
C1_Witness ==
    /\ SortDone
    /\ PyLen(input) >= 3
    /\ data # input
    /\ \E k \in DOMAIN data :
          /\ (k + 1) \in DOMAIN data
          /\ data[k] # data[k + 1]
          /\ Lower(data[k]) = Lower(data[k + 1])

\* C8: randomized_partition(data, low, high) with 0 <= low < high <
\* len(data) returns p in low..high; afterwards data[p] is the drawn pivot
\* element, the keys at low..p-1 are <= the pivot's key, the keys at
\* p+1..high are > the pivot's key, low..high holds a permutation of what it
\* held, the rest of the list is unchanged, and no index outside low..high
\* was read or written.
C8_PartitionPostcondition ==
    last.valid =>
        LET lo == last.low
            hi == last.high
            p  == last.p
            a  == last.after
            b  == last.before
            pk == Lower(last.chosen)
        IN  /\ 0 <= lo /\ lo < hi /\ hi < PyLen(b)
            /\ lo <= p /\ p <= hi
            /\ a[p] = last.chosen
            /\ \A k \in lo..(p - 1) : StrLeq(Lower(a[k]), pk)
            /\ \A k \in (p + 1)..hi : ~StrLeq(Lower(a[k]), pk)
            /\ \A x \in Names :
                  Cardinality({k \in lo..hi : a[k] = x})
                      = Cardinality({k \in lo..hi : b[k] = x})
            /\ \A k \in DOMAIN b : (k < lo \/ k > hi) => a[k] = b[k]
            /\ DOMAIN a = DOMAIN b
            /\ last.touched \subseteq lo..hi

\* A partition of a range that stops before the end of the list, which put the
\* pivot strictly inside the range, with a key equal to the pivot's on the
\* left.
C8_Witness ==
    /\ last.valid
    /\ last.high < PyLen(last.before) - 1
    /\ last.low < last.p /\ last.p < last.high
    /\ last.after # last.before
    /\ \E k \in last.low..(last.p - 1) :
          /\ last.after[k] # last.chosen
          /\ Lower(last.after[k]) = Lower(last.chosen)

\* C9: randomized_quick_sort terminates for every list and every sequence
\* of pivot draws: every recursive call is made on a range strictly shorter
\* than its caller's, a range with low >= high makes no call, and the first
\* call returns.
C9_Terminates ==
    /\ [][Len(stack') > Len(stack) =>
            /\ stack'[Len(stack')].high - stack'[Len(stack')].low
                  < Top.high - Top.low
            /\ Top.low < Top.high]_vars
    /\ <>SortDone

\* A call two levels down the recursion returns at once on an empty range.
C9_Witness ==
    /\ Len(stack) >= 3
    /\ Top.pc = "start"
    /\ Top.low > Top.high

(***************************************************************************)
(* The claims about /upload_and_sort.                                      *)
(***************************************************************************)
Answered == response.kind = "json"

Sorted200 == Answered /\ response.status = 200

\* The request carries a file named .xlsx or .xls that read_excel reads.
WellFormed ==
    /\ request.kind = "upload"
    /\ request.has_file
    /\ EndsWith(request.filename, DotXlsx) \/ EndsWith(request.filename, DotXls)
    /\ request.readable

\* The case-folded string form of the cell of row k in column col.
FoldedText(df, col, k) ==
    Lower(AsTypeStr(ColumnCells(df, col)[k], Dtype(df, col)))

\* C2: in the single-key path the sort is stable: two rows whose key cells
\* have the same case-folded string form come out in the order they came
\* in.
C2_SingleKeyStable ==
    (Sorted200 /\ Len(response.columns_to_sort) = 1) =>
        LET df == request.df
            col == response.columns_to_sort[1]
            n == Len(df.rows)
        IN  \E o \in Orders(n) :
               /\ response.df = Reorder(df, o)
               /\ \A x, y \in 1..n :
                     (x < y /\ FoldedText(df, col, o[x]) = FoldedText(df, col, o[y]))
                         => o[x] < o[y]

\* The composite key of row k whose components are the case-folded string
\* forms of the key cells, whatever the type of the column.
TextKey(df, cols, k) ==
    [c \in 1..Len(cols) |-> StrCell(FoldedText(df, cols[c], k))]

NativeKey(df, cols, k) ==
    [c \in 1..Len(cols) |->
        IF Dtype(df, cols[c]) = "object"
        THEN StrCell(FoldedText(df, cols[c], k))
        ELSE ColumnCells(df, cols[c])[k]]

C4_UnknownColumn ==
    (Answered /\ WellFormed
       /\ \E c \in Range(ColumnsToSort(Strip(request.sort_column_name))) :
             c \notin Range(request.df.columns))
    =>  /\ response.status = 400
        /\ \A c \in Range(ColumnsToSort(Strip(request.sort_column_name))) :
              c \notin Range(request.df.columns) => c \in Range(response.missing)
        /\ \A c \in Range(response.missing) : c \notin Range(request.df.columns)
        /\ response.available = request.df.columns
        /\ response.df = NoDf
        /\ response.temp_file_path = <<>>
        /\ files = InitFiles
        /\ next_tmp = 0

\* The request for "z,a,y" on a sheet with rows is refused, naming z and y.
C4_Witness ==
    /\ Answered /\ WellFormed
    /\ Len(request.df.rows) >= 2
    /\ request.sort_column_name = << 122, 44, 97, 44, 121 >>
    /\ response.missing = << << 122 >>, << 121 >> >>

\* C5: a key string that yields no column name after splitting, trimming
\* and dropping the empty entries (such as "," or " , ") is treated as no
\* column specified: the request ends as one with an empty key string does,
\* with the 400 of the caller-side validation.
C5_NoUsableKeyRejected ==
    (Answered /\ WellFormed
       /\ ColumnsToSort(Strip(request.sort_column_name)) = <<>>)
    =>  response =
           Reply(400, "Please select a file and specify at least one column name.")

\* C6: the table produced is a permutation of the input rows: the same
\* columns in the same order, as many rows, every output row an input row
\* with its cells unchanged.
C6_RowsPermuted ==
    Sorted200 =>
        /\ response.df.columns = request.df.columns
        /\ Len(response.df.rows) = Len(request.df.rows)
        /\ \E o \in Orders(Len(request.df.rows)) :
              \A k \in 1..Len(request.df.rows) :
                  response.df.rows[k] = request.df.rows[o[k]]

\* A sorted sheet of three rows that came out in another order and still
\* holds the capital "B" in a key cell.
C6_Witness ==
    /\ Sorted200
    /\ Len(request.df.rows) = 3
    /\ response.df.rows # request.df.rows
    /\ response.columns_to_sort = << ColA >>
    /\ \E k \in 1..3 : response.df.rows[k][1] = StrCell(<<66>>)

(***************************************************************************)
(* The claims about the temporary files.                                   *)
(***************************************************************************)
\* The artifacts written so far.
Artifacts == { TempFileName(k) : k \in 0..(next_tmp - 1) }

\* C7: a sorted artifact is retrieved at most once: whatever the order or
\* interleaving of the /download requests that name its path, at most one
\* of them is answered with the file.
C7_RetrievedAtMostOnce == \A f \in Artifacts : served[f] <= 1

IsTempSheet(f) == StartsWith(f, Tmp) /\ EndsWith(f, DotXlsx)

\* C10: once cleanup_old_temp_files has run before a request, no tmp*.xlsx
\* file modified more than an hour before that run remains in the
\* temporary directory.
C10_OldFilesRemoved ==
    cleaned_at >= 0 =>
        \A f \in DOMAIN files :
            IsTempSheet(f) => ~(files[f] < cleaned_at - MaxAge)

====
